---- MODULE Spec2Model ----
(***************************************************************************)
(* Model of src/main.py: the Twilio <-> ElevenLabs media-stream handler    *)
(* (handle_media_stream), the post-call webhook (receive_message) and the  *)
(* Intercom helper functions.                                              *)
(*                                                                         *)
(* Text is modelled as Python has it: a bytes object is a sequence of byte *)
(* values 0..255 and a str is a sequence of code points.  Only ASCII and   *)
(* the byte 0xFF occur in the inputs drawn below.                          *)
(***************************************************************************)
EXTENDS Integers, Sequences, FiniteSets, TLC

VARIABLES
    running,      \* the coroutine that holds the event loop, or NoOne
    clock,        \* time.time(), in half seconds
    pc,           \* handle_media_stream: position of each call's handler
    bound,        \* handle_media_stream: the local `conversation` is bound
    started,      \* start_session() has returned for the call's Conversation
    aiEnded,      \* the Conversation's session thread has terminated
    wsOpen,       \* the telephony side still holds the WebSocket open
    inbox,        \* text frames sent by the telephony side, not yet read
    nsent,        \* number of text frames the telephony side has sent
    handed,       \* arguments of handle_twilio_message calls, in call order
    endCalls,     \* number of conversation.end_session() calls
    waitCalls,    \* number of conversation.wait_for_session_end() calls
    cause,        \* what ended the relay loop of the call
    sentLog,      \* every text frame the telephony side has sent, in order
    endResult,    \* how line 86 ended: "ok", "raised", "unbound", or "none" yet
    hpc,          \* receive_message: position of each webhook invocation
    req,          \* receive_message: the request (body, header, what the sender did)
    verdict,      \* receive_message: outcome of lines 98-118
    verifiedAt,   \* receive_message: int(time.time()) read at line 104
    compared,     \* receive_message: characters the != of line 115 examined
    inp,          \* receive_message: phone_number, transcript, should_support
    ctx,          \* receive_message: contact_id, conversation_id
    issued,       \* ticketing requests posted by the invocation, in order
    result        \* receive_message: what the invocation returned or raised

callVars == <<pc, bound, started, aiEnded, wsOpen, inbox, nsent, handed,
              endCalls, waitCalls, cause, sentLog, endResult>>
hookVars == <<hpc, req, verdict, verifiedAt, compared, inp, ctx, issued, result>>
vars == <<running, clock, callVars, hookVars>>

NoOne == "nobody"

-----------------------------------------------------------------------------
(* Bounds of the model.                                                    *)

MaxSent == 2          \* text frames the telephony side sends per call
MaxTicks == 2         \* half-second ticks of the clock after Init
StartClock == 3602    \* time.time() at Init, in half seconds (1801 s)
MaxTs == 3            \* webhook timestamps range over 0..MaxTs seconds

-----------------------------------------------------------------------------
(* Text helpers.                                                           *)

Comma == 44
Dot == 46

\* "t=", "v0=" and the module-level `secret`, as code points
StrT == <<116, 61>>
StrV0 == <<118, 48, 61>>
secret == <<115, 101, 99, 114, 101, 116>>
OtherKey == <<111>>

ToleranceSeconds == 30 * 60

\* str.split(","): the fields between commas, at least one
RECURSIVE SplitAcc(_, _, _)
SplitAcc(s, cur, out) ==
    IF s = <<>> THEN Append(out, cur)
    ELSE IF Head(s) = Comma
         THEN SplitAcc(Tail(s), <<>>, Append(out, cur))
         ELSE SplitAcc(Tail(s), Append(cur, Head(s)), out)

Split(s) == SplitAcc(s, <<>>, <<>>)

\* s[2:]
SliceFrom2(s) == IF Len(s) <= 2 THEN <<>> ELSE SubSeq(s, 3, Len(s))

IsDigit(ch) == ch \in 48..57

\* int(s) for s made of the characters used here: decimal digits parse,
\* the empty string and any other character raise ValueError
RECURSIVE DigitsValue(_, _)
DigitsValue(s, acc) ==
    IF s = <<>> THEN acc
    ELSE DigitsValue(Tail(s), 10 * acc + (Head(s) - 48))

IntOk(s) == s # <<>> /\ \A i \in 1..Len(s) : IsDigit(s[i])
IntValue(s) == DigitsValue(s, 0)

\* str(n) for n >= 0
RECURSIVE IntToStr(_)
IntToStr(n) ==
    IF n < 10 THEN <<48 + n>>
    ELSE Append(IntToStr(n \div 10), 48 + (n % 10))

\* bytes.decode("utf-8"): ASCII bytes decode to the same code points, a
\* 0xFF byte is never valid UTF-8
DecodeOk(b) == \A i \in 1..Len(b) : b[i] < 128
Utf8Decode(b) == [i \in 1..Len(b) |-> b[i]]
\* str.encode("utf-8") of ASCII text
Utf8Encode(s) == [i \in 1..Len(s) |-> s[i]]

HexDigit(n) == IF n < 10 THEN 48 + n ELSE 87 + n

RECURSIVE HexOf(_)
HexOf(b) ==
    IF b = <<>> THEN <<>>
    ELSE <<HexDigit(Head(b) \div 16), HexDigit(Head(b) % 16)>> \o HexOf(Tail(b))

\* hmac.new(key, msg, sha256).hexdigest(): HMAC-SHA256 is taken as an
\* injective keyed function; the digest is the hex text of key, a 0 byte
\* and the message
HmacHexDigest(key, msg) == HexOf(key \o <<0>> \o msg)

-----------------------------------------------------------------------------
(* receive_message, lines 98-118: the verification of the webhook.         *)
(* The outcome is the value the code returns on, "Valid" when it reaches   *)
(* line 118, or the name of the exception that escapes.                    *)

\* Verify with the comparison of line 115 against the digest lost
VerifyNoCompare(hasHeader, headers, payload, now) ==
    IF ~hasHeader THEN "MissingHeader"
    ELSE LET fields == Split(headers)
             timestamp == SliceFrom2(fields[1])
         IN  IF Len(fields) < 2 THEN "IndexError"
             ELSE LET hmac_signature == fields[2]
                      tolerance == now - ToleranceSeconds
                  IN  IF ~IntOk(timestamp) THEN "ValueError"
                      ELSE IF IntValue(timestamp) < tolerance THEN "StaleTimestamp"
                      ELSE IF ~DecodeOk(payload) THEN "UnicodeDecodeError"
                      ELSE LET full_payload_to_sign ==
                                   timestamp \o <<Dot>> \o Utf8Decode(payload)
                               digest ==
                                   StrV0 \o HmacHexDigest(Utf8Encode(secret),
                                             Utf8Encode(full_payload_to_sign))
                           IN  IF hmac_signature = <<>>
                               THEN "SignatureMismatch"
                               ELSE "Valid"

\* Verify with line 105 written as <=
VerifyExclusive(hasHeader, headers, payload, now) ==
    IF ~hasHeader THEN "MissingHeader"
    ELSE LET fields == Split(headers)
             timestamp == SliceFrom2(fields[1])
         IN  IF Len(fields) < 2 THEN "IndexError"
             ELSE LET hmac_signature == fields[2]
                      tolerance == now - ToleranceSeconds
                  IN  IF ~IntOk(timestamp) THEN "ValueError"
                      ELSE IF IntValue(timestamp) <= tolerance THEN "StaleTimestamp"
                      ELSE IF ~DecodeOk(payload) THEN "UnicodeDecodeError"
                      ELSE LET full_payload_to_sign ==
                                   timestamp \o <<Dot>> \o Utf8Decode(payload)
                               digest ==
                                   StrV0 \o HmacHexDigest(Utf8Encode(secret),
                                             Utf8Encode(full_payload_to_sign))
                           IN  IF hmac_signature # digest
                               THEN "SignatureMismatch"
                               ELSE "Valid"

Verify(hasHeader, headers, payload, now) ==
    IF ~hasHeader THEN "MissingHeader"
    ELSE LET fields == Split(headers)
             timestamp == SliceFrom2(fields[1])
         IN  IF Len(fields) < 2 THEN "IndexError"
             ELSE LET hmac_signature == fields[2]
                      tolerance == now - ToleranceSeconds
                  IN  IF ~IntOk(timestamp) THEN "ValueError"
                      ELSE IF IntValue(timestamp) < tolerance THEN "StaleTimestamp"
                      ELSE IF ~DecodeOk(payload) THEN "UnicodeDecodeError"
                      ELSE LET full_payload_to_sign ==
                                   timestamp \o <<Dot>> \o Utf8Decode(payload)
                               digest ==
                                   StrV0 \o HmacHexDigest(Utf8Encode(secret),
                                             Utf8Encode(full_payload_to_sign))
                           IN  IF hmac_signature # digest
                               THEN "SignatureMismatch"
                               ELSE "Valid"

\* a != b on two str objects: unequal lengths are unequal at once, equal
\* lengths are compared from the left up to the first difference; the
\* number of characters examined
RECURSIVE FirstDiff(_, _, _)
FirstDiff(a, b, i) ==
    IF i > Len(a) THEN Len(a)
    ELSE IF a[i] # b[i] THEN i
    ELSE FirstDiff(a, b, i + 1)

StrNeSteps(a, b) == IF Len(a) # Len(b) THEN 0 ELSE FirstDiff(a, b, 1)

\* the characters line 115 examines, 0 when line 115 is not reached
ComparedAt115(hasHeader, headers, payload, now) ==
    IF Verify(hasHeader, headers, payload, now) \notin {"Valid", "SignatureMismatch"}
    THEN 0
    ELSE LET fields == Split(headers)
             timestamp == SliceFrom2(fields[1])
             digest == StrV0 \o HmacHexDigest(Utf8Encode(secret),
                           Utf8Encode(timestamp \o <<Dot>> \o Utf8Decode(payload)))
         IN  StrNeSteps(fields[2], digest)

Returned == {"MissingHeader", "StaleTimestamp", "SignatureMismatch"}
Raised == {"IndexError", "ValueError", "UnicodeDecodeError"}

\* payload[key] at lines 120-122: payload is the bytes object of line 96,
\* and bytes.__getitem__ takes integers and slices only
BytesGetItem(payload, keyType) ==
    IF keyType = "int" THEN "byte" ELSE "TypeError"

-----------------------------------------------------------------------------
(* The requests the webhook endpoint is sent.  A body stands for a JSON    *)
(* document; its first byte abbreviates the should_support member          *)
(* ("f" false, "t" true).  The sender signs "<t>.<body>" over the raw      *)
(* bytes with its key.                                                     *)

Bodies == { <<102, 49>>, <<116, 49>>, <<102, 255>> }
Keys == { secret, OtherKey }
TsTexts == { IntToStr(t) : t \in 0..MaxTs } \cup { <<120>> }
Forms == { "missing", "nocomma", "signed" }

SentShouldSupport(body) == body[1] = 116

SignedHeader(tsText, key, body) ==
    StrT \o tsText \o <<Comma>> \o StrV0
         \o HmacHexDigest(key, tsText \o <<Dot>> \o body)

HeaderOf(form, tsText, key, body) ==
    CASE form = "missing" -> <<>>
      [] form = "nocomma" -> StrT \o tsText
      [] OTHER -> SignedHeader(tsText, key, body)

Request(b, f, t, k, sb) ==
    [body |-> b, hasHeader |-> (f # "missing"), header |-> HeaderOf(f, t, k, sb),
     form |-> f, tsText |-> t, key |-> k, signed |-> sb]

NoRequest == Request(<<>>, "missing", <<>>, <<>>, <<>>)

Requests ==
    { Request(b, "missing", <<>>, <<>>, <<>>) : b \in Bodies }
    \cup { Request(b, "nocomma", t, <<>>, <<>>) : b \in Bodies, t \in TsTexts }
    \cup { Request(b, "signed", t, k, sb) :
               b \in Bodies, t \in TsTexts, k \in Keys, sb \in Bodies }

-----------------------------------------------------------------------------
(* The event loop.  A coroutine runs from one await to the next without    *)
(* any other coroutine running; a blocking call keeps the loop.            *)

Calls == DOMAIN pc
Hooks == DOMAIN hpc

CanResume(p) == running = NoOne
Holds(p) == running = p

\* int(time.time())
IntTime == clock \div 2

Tick ==
    /\ clock < StartClock + MaxTicks
    /\ clock' = clock + 1
    /\ UNCHANGED <<running, callVars, hookVars>>

-----------------------------------------------------------------------------
(* handle_media_stream.                                                    *)

\* the text frames the telephony side sends
EmptyText == ""
Malformed == "{\"event\":"
Media1 == "{\"event\":\"media\",\"seq\":1}"
Media2 == "{\"event\":\"media\",\"seq\":2}"
Frames == {EmptyText, Malformed, Media1, Media2}

\* json.loads(message) on those frames
JsonLoads(m) ==
    CASE m = Media1 -> [ok |-> TRUE, value |-> [event |-> "media", seq |-> 1]]
      [] m = Media2 -> [ok |-> TRUE, value |-> [event |-> "media", seq |-> 2]]
      [] OTHER -> [ok |-> FALSE, value |-> [event |-> "none", seq |-> 0]]

\* control enters the finally block at line 84, which runs without an await
EnterFinally(c, why) ==
    /\ pc' = [pc EXCEPT ![c] = "finally"]
    /\ cause' = [cause EXCEPT ![c] = why]
    /\ running' = c

\* lines 55-59, outside the try: an exception here leaves the handler
Accept(c) ==
    /\ pc[c] = "pending"
    /\ CanResume(c)
    /\ \/ pc' = [pc EXCEPT ![c] = "construct"] /\ running' = c
       \/ pc' = [pc EXCEPT ![c] = "propagated"] /\ running' = NoOne
    /\ UNCHANGED <<clock, bound, started, aiEnded, wsOpen, inbox, nsent, handed,
                   endCalls, waitCalls, cause, sentLog, endResult,
                   hookVars>>

\* Construct with the constructor call placed before the try of line 61
ConstructOutsideTry(c) ==
    /\ pc[c] = "construct"
    /\ Holds(c)
    /\ \/ /\ bound' = [bound EXCEPT ![c] = TRUE]
          /\ pc' = [pc EXCEPT ![c] = "start"]
          /\ UNCHANGED <<running, cause>>
       \/ /\ pc' = [pc EXCEPT ![c] = "propagated"]
          /\ cause' = [cause EXCEPT ![c] = "construct_error"]
          /\ running' = NoOne
          /\ UNCHANGED bound
    /\ UNCHANGED <<clock, started, aiEnded, wsOpen, inbox, nsent, handed,
                   endCalls, waitCalls, sentLog, endResult,
                   hookVars>>

\* lines 62-69: Conversation(...) binds `conversation`, or raises
Construct(c) ==
    /\ pc[c] = "construct"
    /\ Holds(c)
    /\ \/ /\ bound' = [bound EXCEPT ![c] = TRUE]
          /\ pc' = [pc EXCEPT ![c] = "start"]
          /\ UNCHANGED <<running, cause>>
       \/ EnterFinally(c, "construct_error") /\ UNCHANGED bound
    /\ UNCHANGED <<clock, started, aiEnded, wsOpen, inbox, nsent, handed,
                   endCalls, waitCalls, sentLog, endResult,
                   hookVars>>

\* StartSession that enters the loop of line 74 even when start_session() raised
StartSessionUnchecked(c) ==
    /\ pc[c] = "start"
    /\ Holds(c)
    /\ \/ /\ started' = [started EXCEPT ![c] = TRUE]
          /\ pc' = [pc EXCEPT ![c] = "relay"]
          /\ running' = NoOne
          /\ UNCHANGED cause
       \/ /\ pc' = [pc EXCEPT ![c] = "relay"]
          /\ running' = NoOne
          /\ UNCHANGED <<started, cause>>
    /\ UNCHANGED <<clock, bound, aiEnded, wsOpen, inbox, nsent, handed,
                   endCalls, waitCalls, sentLog, endResult,
                   hookVars>>

\* lines 71-74: start_session() returns and the loop awaits a frame, or raises
StartSession(c) ==
    /\ pc[c] = "start"
    /\ Holds(c)
    /\ \/ /\ started' = [started EXCEPT ![c] = TRUE]
          /\ pc' = [pc EXCEPT ![c] = "relay"]
          /\ running' = NoOne
          /\ UNCHANGED cause
       \/ EnterFinally(c, "start_error") /\ UNCHANGED started
    /\ UNCHANGED <<clock, bound, aiEnded, wsOpen, inbox, nsent, handed,
                   endCalls, waitCalls, sentLog, endResult,
                   hookVars>>

\* RecvText taking the newest frame instead of the oldest
RecvTextLast(c) ==
    /\ pc[c] = "relay"
    /\ CanResume(c)
    /\ inbox[c] # <<>>
    /\ inbox' = [inbox EXCEPT ![c] = SubSeq(@, 1, Len(@) - 1)]
    /\ LET message == inbox[c][Len(inbox[c])]
       IN  IF message = EmptyText
           THEN UNCHANGED <<pc, cause, running, handed>>
           ELSE IF ~JsonLoads(message).ok
           THEN EnterFinally(c, "exception") /\ UNCHANGED handed
           ELSE /\ handed' = [handed EXCEPT ![c] = Append(@, JsonLoads(message).value)]
                /\ pc' = [pc EXCEPT ![c] = "handling"]
                /\ UNCHANGED <<cause, running>>
    /\ UNCHANGED <<clock, bound, started, aiEnded, wsOpen, nsent,
                   endCalls, waitCalls, sentLog, endResult,
                   hookVars>>

\* lines 74-77: one frame from websocket.iter_text()
RecvText(c) ==
    /\ pc[c] = "relay"
    /\ CanResume(c)
    /\ inbox[c] # <<>>
    /\ inbox' = [inbox EXCEPT ![c] = Tail(@)]
    /\ LET message == Head(inbox[c])
       IN  IF message = EmptyText
           THEN UNCHANGED <<pc, cause, running, handed>>
           ELSE IF ~JsonLoads(message).ok
           THEN EnterFinally(c, "exception") /\ UNCHANGED handed
           ELSE /\ handed' = [handed EXCEPT ![c] = Append(@, JsonLoads(message).value)]
                /\ pc' = [pc EXCEPT ![c] = "handling"]
                /\ UNCHANGED <<cause, running>>
    /\ UNCHANGED <<clock, bound, started, aiEnded, wsOpen, nsent,
                   endCalls, waitCalls, sentLog, endResult,
                   hookVars>>

\* line 77: the awaited handle_twilio_message returns
HandleReturns(c) ==
    /\ pc[c] = "handling"
    /\ CanResume(c)
    /\ pc' = [pc EXCEPT ![c] = "relay"]
    /\ UNCHANGED <<running, clock, bound, started, aiEnded, wsOpen, inbox, nsent,
                   handed, endCalls, waitCalls, cause, sentLog, endResult,
                   hookVars>>

\* line 77 raises: WebSocketDisconnect (line 79) or another Exception (line 81)
HandleRaises(c) ==
    /\ pc[c] = "handling"
    /\ CanResume(c)
    /\ \E why \in {"disconnect_exc", "exception"} : EnterFinally(c, why)
    /\ UNCHANGED <<clock, bound, started, aiEnded, wsOpen, inbox, nsent, handed,
                   endCalls, waitCalls, sentLog, endResult,
                   hookVars>>

\* line 74: the telephony side has closed and every frame was read;
\* iter_text() ends the iteration
RecvDisconnectEnds(c) ==
    /\ pc[c] = "relay"
    /\ CanResume(c)
    /\ inbox[c] = <<>>
    /\ ~wsOpen[c]
    /\ EnterFinally(c, "closed")
    /\ endCalls' = [endCalls EXCEPT ![c] = @ + 1]
    /\ UNCHANGED <<clock, bound, started, aiEnded, wsOpen, inbox, nsent, handed,
                   waitCalls, sentLog, endResult,
                   hookVars>>

RecvDisconnect(c) ==
    /\ pc[c] = "relay"
    /\ CanResume(c)
    /\ inbox[c] = <<>>
    /\ ~wsOpen[c]
    /\ EnterFinally(c, "closed")
    /\ UNCHANGED <<clock, bound, started, aiEnded, wsOpen, inbox, nsent, handed,
                   endCalls, waitCalls, sentLog, endResult,
                   hookVars>>

\* line 74: receiving fails with a transport error
RecvError(c) ==
    /\ pc[c] = "relay"
    /\ CanResume(c)
    /\ EnterFinally(c, "exception")
    /\ UNCHANGED <<clock, bound, started, aiEnded, wsOpen, inbox, nsent, handed,
                   endCalls, waitCalls, sentLog, endResult,
                   hookVars>>

\* the handler returns
Finish(c) ==
    /\ pc' = [pc EXCEPT ![c] = "done"]
    /\ running' = NoOne

\* line 86 with `conversation` unbound: UnboundLocalError, caught at line 89
FinallyUnbound(c) ==
    /\ pc[c] = "finally"
    /\ Holds(c)
    /\ ~bound[c]
    /\ endResult' = [endResult EXCEPT ![c] = "unbound"]
    /\ Finish(c)
    /\ UNCHANGED <<clock, bound, started, aiEnded, wsOpen, inbox, nsent, handed,
                   endCalls, waitCalls, cause, sentLog,
                   hookVars>>

\* EndSession with line 87 run even when line 86 raised
EndSessionThenWait(c) ==
    /\ pc[c] = "finally"
    /\ Holds(c)
    /\ bound[c]
    /\ endCalls' = [endCalls EXCEPT ![c] = @ + 1]
    /\ \/ /\ endResult' = [endResult EXCEPT ![c] = "ok"]
          /\ pc' = [pc EXCEPT ![c] = "wait"]
          /\ UNCHANGED running
       \/ /\ endResult' = [endResult EXCEPT ![c] = "raised"]
          /\ pc' = [pc EXCEPT ![c] = "wait"]
          /\ UNCHANGED running
    /\ UNCHANGED <<clock, bound, started, aiEnded, wsOpen, inbox, nsent, handed,
                   waitCalls, cause, sentLog,
                   hookVars>>

\* line 86: conversation.end_session() returns, or raises (caught at line 89)
EndSession(c) ==
    /\ pc[c] = "finally"
    /\ Holds(c)
    /\ bound[c]
    /\ endCalls' = [endCalls EXCEPT ![c] = @ + 1]
    /\ \/ /\ endResult' = [endResult EXCEPT ![c] = "ok"]
          /\ pc' = [pc EXCEPT ![c] = "wait"]
          /\ UNCHANGED running
       \/ /\ endResult' = [endResult EXCEPT ![c] = "raised"]
          /\ Finish(c)
    /\ UNCHANGED <<clock, bound, started, aiEnded, wsOpen, inbox, nsent, handed,
                   waitCalls, cause, sentLog,
                   hookVars>>

\* line 87: conversation.wait_for_session_end() raises (caught at line 89),
\* or joins the session thread that start_session() created
WaitForSessionEnd(c) ==
    /\ pc[c] = "wait"
    /\ Holds(c)
    /\ waitCalls' = [waitCalls EXCEPT ![c] = @ + 1]
    /\ \/ Finish(c)
       \/ started[c] /\ pc' = [pc EXCEPT ![c] = "joining"] /\ UNCHANGED running
    /\ UNCHANGED <<clock, bound, started, aiEnded, wsOpen, inbox, nsent, handed,
                   endCalls, cause, sentLog, endResult,
                   hookVars>>

\* lines 87-88: the join returns once the session thread has terminated
JoinReturns(c) ==
    /\ pc[c] = "joining"
    /\ Holds(c)
    /\ aiEnded[c]
    /\ Finish(c)
    /\ UNCHANGED <<clock, bound, started, aiEnded, wsOpen, inbox, nsent, handed,
                   endCalls, waitCalls, cause, sentLog, endResult,
                   hookVars>>

\* the steps of the handler of call c
HandlerStep(c) ==
    \/ Accept(c) \/ Construct(c) \/ StartSession(c)
    \/ RecvText(c) \/ HandleReturns(c) \/ HandleRaises(c)
    \/ RecvDisconnect(c) \/ RecvError(c)
    \/ FinallyUnbound(c) \/ EndSession(c) \/ WaitForSessionEnd(c)
    \/ JoinReturns(c)

\* the steps the event loop is bound to run: every step of the handler but
\* RecvError, which needs the transport to fail
ReadyStep(c) ==
    \/ Accept(c) \/ Construct(c) \/ StartSession(c)
    \/ RecvText(c) \/ HandleReturns(c) \/ HandleRaises(c)
    \/ RecvDisconnect(c)
    \/ FinallyUnbound(c) \/ EndSession(c) \/ WaitForSessionEnd(c)
    \/ JoinReturns(c)

(* The environment of a call: the telephony side and the AI session.       *)

\* the telephony side sends one of the frames F
TwilioSendFrom(c, F) ==
    /\ pc[c] \notin {"pending", "propagated", "done"}
    /\ wsOpen[c]
    /\ nsent[c] < MaxSent
    /\ \E m \in F :
          /\ inbox' = [inbox EXCEPT ![c] = Append(@, m)]
          /\ sentLog' = [sentLog EXCEPT ![c] = Append(@, m)]
    /\ nsent' = [nsent EXCEPT ![c] = @ + 1]
    /\ UNCHANGED <<running, clock, pc, bound, started, aiEnded, wsOpen, handed,
                   endCalls, waitCalls, cause, endResult, hookVars>>

TwilioSend(c) == TwilioSendFrom(c, Frames)

TwilioClose(c) ==
    /\ pc[c] \notin {"pending", "propagated", "done"}
    /\ wsOpen[c]
    /\ wsOpen' = [wsOpen EXCEPT ![c] = FALSE]
    /\ UNCHANGED <<running, clock, pc, bound, started, aiEnded, inbox, nsent,
                   handed, endCalls, waitCalls, cause, sentLog, endResult,
                   hookVars>>

\* the session thread terminates, on its own or after end_session()
AIThreadEnds(c) ==
    /\ started[c]
    /\ ~aiEnded[c]
    /\ aiEnded' = [aiEnded EXCEPT ![c] = TRUE]
    /\ UNCHANGED <<running, clock, pc, bound, started, wsOpen, inbox, nsent,
                   handed, endCalls, waitCalls, cause, sentLog, endResult,
                   hookVars>>

-----------------------------------------------------------------------------
(* receive_message.                                                        *)

NoCtx == [contact_id |-> "unset", conversation_id |-> "unset"]
NoInp == [phone_number |-> "unset", transcript |-> "unset", should_support |-> FALSE]

\* a POST /post-webhook request, one of R, arrives and its handler is scheduled
HookArriveFrom(h, R) ==
    /\ hpc[h] = "absent"
    /\ \E r \in R : req' = [req EXCEPT ![h] = r]
    /\ hpc' = [hpc EXCEPT ![h] = "body"]
    /\ UNCHANGED <<running, clock, callVars, verdict, verifiedAt, compared, inp, ctx,
                   issued, result>>

HookArrive(h) == HookArriveFrom(h, Requests)

\* lines 96-118: read the body, verify header, freshness and signature
ReceiveVerify(h) ==
    /\ hpc[h] = "body"
    /\ CanResume(h)
    /\ LET v == Verify(req[h].hasHeader, req[h].header, req[h].body, IntTime)
       IN  /\ verdict' = [verdict EXCEPT ![h] = v]
           /\ verifiedAt' = [verifiedAt EXCEPT ![h] = IntTime]
           /\ compared' = [compared EXCEPT ![h] =
                 ComparedAt115(req[h].hasHeader, req[h].header, req[h].body, IntTime)]
           /\ hpc' = [hpc EXCEPT ![h] =
                        IF v = "Valid" THEN "extract"
                        ELSE IF v \in Returned THEN "returned" ELSE "raised"]
           /\ result' = [result EXCEPT ![h] =
                        IF v = "Valid" THEN @
                        ELSE IF v \in Returned THEN "None" ELSE v]
           /\ running' = IF v = "Valid" THEN h ELSE NoOne
    /\ UNCHANGED <<clock, callVars, req, inp, ctx, issued>>

\* lines 120-122: payload["data"]... on the bytes object raises TypeError
ReceiveExtract(h) ==
    /\ hpc[h] = "extract"
    /\ Holds(h)
    /\ BytesGetItem(req[h].body, "str") = "TypeError"
    /\ hpc' = [hpc EXCEPT ![h] = "raised"]
    /\ result' = [result EXCEPT ![h] = "TypeError"]
    /\ running' = NoOne
    /\ UNCHANGED <<clock, callVars, req, verdict, verifiedAt, compared, inp, ctx, issued>>

-----------------------------------------------------------------------------
(* The ticketing API as the helper functions see it.  Each requests.post   *)
(* has one of four outcomes: the call raises ("raise"), the response is    *)
(* not JSON ("nojson"), the response is a JSON error object without an     *)
(* "id" member ("error"), or it is the created object ("ok").              *)

admin_id == 123
smrtlite_id == 567

Outcomes == {"raise", "nojson", "error", "ok"}
ContactIds == {"u1", "u2"}
ConversationIds == {"k1", "k2"}

\* requests.post(...) followed by response.json()
PostJson(out) ==
    CASE out = "raise" -> "RequestException"
      [] out = "nojson" -> "JSONDecodeError"
      [] OTHER -> "none"

\* lines 135-152: returns data["id"]
create_intercom_contact_get(out, id) ==
    IF PostJson(out) # "none" THEN [exc |-> PostJson(out), value |-> "None"]
    ELSE IF out = "error" THEN [exc |-> "none", value |-> "None"]
    ELSE [exc |-> "none", value |-> id]

create_intercom_contact(out, id) ==
    IF PostJson(out) # "none" THEN [exc |-> PostJson(out), value |-> "None"]
    ELSE IF out = "error" THEN [exc |-> "KeyError", value |-> "None"]
    ELSE [exc |-> "none", value |-> id]

\* lines 155-169: returns data["id"]
create_intercom_conversation(out, id) ==
    IF PostJson(out) # "none" THEN [exc |-> PostJson(out), value |-> "None"]
    ELSE IF out = "error" THEN [exc |-> "KeyError", value |-> "None"]
    ELSE [exc |-> "none", value |-> id]

\* lines 191-210: prints the response, whatever it is
assign_conversation(out) == [exc |-> PostJson(out), value |-> "None"]

\* lines 171-189: prints the response, whatever it is
close_conversation(out) == [exc |-> PostJson(out), value |-> "None"]

Log(h, entry) == issued' = [issued EXCEPT ![h] = Append(@, entry)]

\* the exception leaves receive_message
Raise(h, exc) ==
    /\ hpc' = [hpc EXCEPT ![h] = "raised"]
    /\ result' = [result EXCEPT ![h] = exc]
    /\ running' = NoOne

\* line 124
CreateContact(h) ==
    /\ hpc[h] = "contact"
    /\ running \in {NoOne, h}
    /\ \E out \in Outcomes, id \in ContactIds :
          LET r == create_intercom_contact(out, id)
          IN  /\ Log(h, [op |-> "contact", arg |-> inp[h].phone_number,
                         resp |-> out, id |-> IF out = "ok" THEN id ELSE "none"])
              /\ IF r.exc # "none"
                 THEN Raise(h, r.exc) /\ UNCHANGED ctx
                 ELSE /\ ctx' = [ctx EXCEPT ![h].contact_id = r.value]
                      /\ hpc' = [hpc EXCEPT ![h] = "conversation"]
                      /\ running' = h
                      /\ UNCHANGED result
    /\ UNCHANGED <<clock, callVars, req, verdict, verifiedAt, compared, inp>>

\* CreateConversation reading the contact id from a slot that all
\* invocations write
CreateConversationShared(h) ==
    /\ hpc[h] = "conversation"
    /\ Holds(h)
    /\ \E out \in Outcomes, id \in ConversationIds, g \in Hooks :
          LET r == create_intercom_conversation(out, id)
          IN  /\ Log(h, [op |-> "conversation", arg |-> ctx[g].contact_id,
                         resp |-> out, id |-> IF out = "ok" THEN id ELSE "none"])
              /\ IF r.exc # "none"
                 THEN Raise(h, r.exc) /\ UNCHANGED ctx
                 ELSE /\ ctx' = [ctx EXCEPT ![h].conversation_id = r.value]
                      /\ hpc' = [hpc EXCEPT ![h] = "assign"]
                      /\ UNCHANGED <<running, result>>
    /\ UNCHANGED <<clock, callVars, req, verdict, verifiedAt, compared, inp>>

\* line 125
CreateConversation(h) ==
    /\ hpc[h] = "conversation"
    /\ Holds(h)
    /\ \E out \in Outcomes, id \in ConversationIds :
          LET r == create_intercom_conversation(out, id)
          IN  /\ Log(h, [op |-> "conversation", arg |-> ctx[h].contact_id,
                         resp |-> out, id |-> IF out = "ok" THEN id ELSE "none"])
              /\ IF r.exc # "none"
                 THEN Raise(h, r.exc) /\ UNCHANGED ctx
                 ELSE /\ ctx' = [ctx EXCEPT ![h].conversation_id = r.value]
                      /\ hpc' = [hpc EXCEPT ![h] = "assign"]
                      /\ UNCHANGED <<running, result>>
    /\ UNCHANGED <<clock, callVars, req, verdict, verifiedAt, compared, inp>>

\* line 127
AssignConversation(h) ==
    /\ hpc[h] = "assign"
    /\ Holds(h)
    /\ \E out \in Outcomes :
          LET r == assign_conversation(out)
          IN  /\ Log(h, [op |-> "assign", arg |-> ctx[h].conversation_id,
                         admin |-> admin_id, assignee |-> smrtlite_id,
                         resp |-> out, id |-> "none"])
              /\ IF r.exc # "none"
                 THEN Raise(h, r.exc)
                 ELSE /\ hpc' = [hpc EXCEPT ![h] = "close"]
                      /\ UNCHANGED <<running, result>>
    /\ UNCHANGED <<clock, callVars, req, verdict, verifiedAt, compared, inp, ctx>>

\* the exit of receive_message at line 132
ReturnReceived(h) ==
    /\ hpc' = [hpc EXCEPT ![h] = "returned"]
    /\ result' = [result EXCEPT ![h] = "received"]
    /\ running' = NoOne

\* lines 129-132, should_support false: close, then return the status
CloseConversation(h) ==
    /\ hpc[h] = "close"
    /\ Holds(h)
    /\ ~inp[h].should_support
    /\ \E out \in Outcomes :
          LET r == close_conversation(out)
          IN  /\ Log(h, [op |-> "close", arg |-> ctx[h].conversation_id,
                         admin |-> admin_id,
                         resp |-> out, id |-> "none"])
              /\ IF r.exc # "none" THEN Raise(h, r.exc) ELSE ReturnReceived(h)
    /\ UNCHANGED <<clock, callVars, req, verdict, verifiedAt, compared, inp, ctx>>

\* lines 129-132, should_support true: return the status
SkipClose(h) ==
    /\ hpc[h] = "close"
    /\ Holds(h)
    /\ inp[h].should_support
    /\ ReturnReceived(h)
    /\ UNCHANGED <<clock, callVars, req, verdict, verifiedAt, compared, inp, ctx, issued>>

-----------------------------------------------------------------------------
(* Specification of the webhook endpoint alone: one invocation, no call.   *)

InitCommon ==
    /\ running = NoOne
    /\ clock = StartClock

InitCalls(C) ==
    /\ pc = [c \in C |-> "pending"]
    /\ bound = [c \in C |-> FALSE]
    /\ started = [c \in C |-> FALSE]
    /\ aiEnded = [c \in C |-> FALSE]
    /\ wsOpen = [c \in C |-> TRUE]
    /\ inbox = [c \in C |-> <<>>]
    /\ nsent = [c \in C |-> 0]
    /\ handed = [c \in C |-> <<>>]
    /\ endCalls = [c \in C |-> 0]
    /\ waitCalls = [c \in C |-> 0]
    /\ cause = [c \in C |-> "none"]
    /\ sentLog = [c \in C |-> <<>>]
    /\ endResult = [c \in C |-> "none"]

InitHooks(H) ==
    /\ hpc = [h \in H |-> "absent"]
    /\ req = [h \in H |-> NoRequest]
    /\ verdict = [h \in H |-> "none"]
    /\ verifiedAt = [h \in H |-> 0]
    /\ compared = [h \in H |-> 0]
    /\ inp = [h \in H |-> NoInp]
    /\ ctx = [h \in H |-> NoCtx]
    /\ issued = [h \in H |-> <<>>]
    /\ result = [h \in H |-> "none"]

InitWebhook == InitCommon /\ InitCalls({}) /\ InitHooks({"h1"})

NextWebhook ==
    \/ Tick
    \/ \E h \in Hooks : HookArrive(h)
    \/ \E h \in Hooks : ReceiveVerify(h)
    \/ \E h \in Hooks : ReceiveExtract(h)

SpecWebhook == InitWebhook /\ [][NextWebhook]_vars

-----------------------------------------------------------------------------
(* Specification of the webhook endpoint with two deliveries, to compare   *)
(* two verification attempts.                                              *)

InitTiming == InitCommon /\ InitCalls({}) /\ InitHooks({"h1", "h2"})

SpecTiming == InitTiming /\ [][NextWebhook]_vars

-----------------------------------------------------------------------------
(* Specification of the media-stream endpoint: one call.                   *)

InitMedia == InitCommon /\ InitCalls({"c1"}) /\ InitHooks({})

NextMedia ==
    \/ \E c \in Calls : Accept(c)
    \/ \E c \in Calls : Construct(c)
    \/ \E c \in Calls : StartSession(c)
    \/ \E c \in Calls : RecvText(c)
    \/ \E c \in Calls : HandleReturns(c)
    \/ \E c \in Calls : HandleRaises(c)
    \/ \E c \in Calls : RecvDisconnect(c)
    \/ \E c \in Calls : RecvError(c)
    \/ \E c \in Calls : FinallyUnbound(c)
    \/ \E c \in Calls : EndSession(c)
    \/ \E c \in Calls : WaitForSessionEnd(c)
    \/ \E c \in Calls : JoinReturns(c)
    \/ \E c \in Calls : TwilioSend(c)
    \/ \E c \in Calls : TwilioClose(c)
    \/ \E c \in Calls : AIThreadEnds(c)

SpecMedia == InitMedia /\ [][NextMedia]_vars

\* the event loop resumes every coroutine that is ready to run; nothing
\* obliges the telephony side, the transport or the AI session to act
SpecMediaFair == SpecMedia /\ \A c \in {"c1"} : WF_vars(ReadyStep(c))

-----------------------------------------------------------------------------
(* Specification of the service: two calls and one webhook invocation on   *)
(* the one event loop that uvicorn.run gives the app (line 216).  The      *)
(* telephony side sends media frames only and the webhook is one of two    *)
(* requests.                                                               *)

ServiceFrames == {Media1}
ServiceRequests ==
    { Request(<<102, 49>>, "missing", <<>>, <<>>, <<>>),
      Request(<<102, 49>>, "signed", IntToStr(MaxTs), secret, <<102, 49>>) }

Init == InitCommon /\ InitCalls({"c1", "c2"}) /\ InitHooks({"h1"})

Next ==
    \/ \E c \in Calls : Accept(c)
    \/ \E c \in Calls : Construct(c)
    \/ \E c \in Calls : StartSession(c)
    \/ \E c \in Calls : RecvText(c)
    \/ \E c \in Calls : HandleReturns(c)
    \/ \E c \in Calls : HandleRaises(c)
    \/ \E c \in Calls : RecvDisconnect(c)
    \/ \E c \in Calls : RecvError(c)
    \/ \E c \in Calls : FinallyUnbound(c)
    \/ \E c \in Calls : EndSession(c)
    \/ \E c \in Calls : WaitForSessionEnd(c)
    \/ \E c \in Calls : JoinReturns(c)
    \/ \E c \in Calls : TwilioSendFrom(c, ServiceFrames)
    \/ \E c \in Calls : TwilioClose(c)
    \/ \E c \in Calls : AIThreadEnds(c)
    \/ \E h \in Hooks : HookArriveFrom(h, ServiceRequests)
    \/ \E h \in Hooks : ReceiveVerify(h)
    \/ \E h \in Hooks : ReceiveExtract(h)

Spec == Init /\ [][Next]_vars

-----------------------------------------------------------------------------
(* Specification of the ticketing workflow, lines 124-132 with the helper  *)
(* functions.  In receive_message line 120 raises before line 124 is       *)
(* reached (ReceiveExtract), so the workflow is checked on its own here:   *)
(* each invocation stands at line 124 with the three values that lines     *)
(* 120-122 are written to extract.                                         *)

Phones == {"+15551234567", "+15559999999"}
Transcripts == {"caller asked about billing"}

InitWorkflow ==
    /\ InitCommon
    /\ InitCalls({})
    /\ hpc = [h \in {"h1", "h2"} |-> "contact"]
    /\ req = [h \in {"h1", "h2"} |-> NoRequest]
    /\ verdict = [h \in {"h1", "h2"} |-> "Valid"]
    /\ verifiedAt = [h \in {"h1", "h2"} |-> IntTime]
    /\ compared = [h \in {"h1", "h2"} |-> 0]
    /\ inp \in [{"h1", "h2"} ->
                 [phone_number : Phones, transcript : Transcripts,
                  should_support : BOOLEAN]]
    /\ ctx = [h \in {"h1", "h2"} |-> NoCtx]
    /\ issued = [h \in {"h1", "h2"} |-> <<>>]
    /\ result = [h \in {"h1", "h2"} |-> "none"]

NextWorkflow ==
    \/ \E h \in Hooks : CreateContact(h)
    \/ \E h \in Hooks : CreateConversation(h)
    \/ \E h \in Hooks : AssignConversation(h)
    \/ \E h \in Hooks : CloseConversation(h)
    \/ \E h \in Hooks : SkipClose(h)

SpecWorkflow == InitWorkflow /\ [][NextWorkflow]_vars

-----------------------------------------------------------------------------
(* What the sender of a webhook did, read off the request.                 *)

Verified(h) == hpc[h] \notin {"absent", "body"}
Ended(h) == hpc[h] \in {"returned", "raised"}
SentWellFormed(h) == req[h].form = "signed" /\ IntOk(req[h].tsText)
SentTs(h) == IntValue(req[h].tsText)
SentFresh(h) == SentTs(h) >= verifiedAt[h] - 1800
SentSigned(h) == req[h].key = secret /\ req[h].signed = req[h].body
SentPasses(h) == SentWellFormed(h) /\ SentFresh(h) /\ SentSigned(h)
OneByteApart(a, b) ==
    Len(a) = Len(b) /\ Cardinality({i \in 1..Len(a) : a[i] # b[i]}) = 1
OpsOf(h) == [i \in 1..Len(issued[h]) |-> issued[h][i].op]

-----------------------------------------------------------------------------
(* Claims.                                                                 *)

\* C1 as stated: whenever handle_media_stream has returned, end_session
\* was called exactly once.
C1_ExactlyOnce ==
    \A c \in Calls : pc[c] = "done" => endCalls[c] = 1

\* C1 amended: end_session is never called twice; when the handler has
\* returned it was called exactly once if the Conversation object was
\* constructed, and not at all if the constructor raised; a handler that an
\* exception of lines 55-59 left has constructed no session and called nothing.
C1_OncePerSession ==
    \A c \in Calls :
        /\ endCalls[c] <= 1
        /\ pc[c] = "done" => endCalls[c] = (IF bound[c] THEN 1 ELSE 0)
        /\ pc[c] = "propagated" => (~bound[c] /\ endCalls[c] = 0)

C1_Witness ==
    \E c \in Calls : pc[c] = "done" /\ cause[c] = "closed" /\ endCalls[c] = 1

\* C2: once the telephony side has closed an Active session, the handler
\* eventually returns, after exactly one end_session call, whatever the AI
\* session does.
C2_ClosedLeadsToReturn ==
    \A c \in {"c1"} :
        (cause[c] = "closed") ~> (pc[c] = "done" /\ endCalls[c] = 1)

\* C3: the step that reads a malformed frame leaves the session Active
\* (in the relay loop), with no teardown triggered.
C3_MalformedSkipped ==
    [][\A c \in Calls :
          (/\ pc[c] = "relay"
           /\ inbox[c] # <<>>
           /\ Head(inbox[c]) = Malformed
           /\ inbox'[c] = Tail(inbox[c]))
          => (pc'[c] = "relay" /\ cause'[c] = "none")]_vars

\* C4: a verified webhook with should_support false ends with the four
\* ticketing calls contact, conversation, assign, close issued in that
\* order and the status acknowledgment returned.
C4_FourCallsThenAck ==
    \A h \in Hooks :
        (verdict[h] = "Valid" /\ Ended(h) /\ ~SentShouldSupport(req[h].body))
        => (/\ OpsOf(h) = <<"contact", "conversation", "assign", "close">>
            /\ result[h] = "received")

\* C5: a verified webhook with should_support true ends with the calls
\* contact, conversation, assign issued in that order and no close call.
C5_ThreeCallsNoClose ==
    \A h \in Hooks :
        (verdict[h] = "Valid" /\ Ended(h) /\ SentShouldSupport(req[h].body))
        => OpsOf(h) = <<"contact", "conversation", "assign">>

\* C6: a webhook that fails verification (header missing or unparsable,
\* timestamp stale, signature not matching) ends at the verification: it
\* never reaches line 120, and no ticketing request is issued for it.
C6_NoCallsOnFailure ==
    \A h \in Hooks :
        (Verified(h) /\ ~SentPasses(h))
        => (/\ Ended(h)
            /\ verdict[h] # "Valid"
            /\ issued[h] = <<>>
            /\ result[h] # "received")

C6_Witness ==
    \E h \in Hooks :
        /\ hpc[h] = "returned"
        /\ SentWellFormed(h) /\ SentFresh(h) /\ ~SentSigned(h)
        /\ verdict[h] = "SignatureMismatch"

\* C7: with a fresh timestamp and the HMAC under the shared secret, the
\* signed body verifies as Valid and a body one byte apart from the signed
\* one as SignatureMismatch.
C7_ValidOrMismatch ==
    \A h \in Hooks :
        (Verified(h) /\ SentWellFormed(h) /\ SentFresh(h) /\ req[h].key = secret)
        => (/\ req[h].signed = req[h].body => verdict[h] = "Valid"
            /\ OneByteApart(req[h].signed, req[h].body)
                  => verdict[h] = "SignatureMismatch")

\* C8: with B = (verification time in whole seconds) - 1800, a timestamp
\* of B - 1 is rejected as stale and a timestamp of B or later passes the
\* freshness check.
C8_Boundary ==
    \A h \in Hooks :
        (Verified(h) /\ SentWellFormed(h))
        => LET B == verifiedAt[h] - 1800
           IN  /\ SentTs(h) = B - 1 => verdict[h] = "StaleTimestamp"
               /\ SentTs(h) >= B =>
                     verdict[h] \in {"Valid", "SignatureMismatch", "UnicodeDecodeError"}

C8_Witness ==
    \E h \in Hooks :
        /\ Verified(h) /\ SentWellFormed(h)
        /\ SentTs(h) = verifiedAt[h] - 1800
        /\ verdict[h] = "Valid"

\* C9: a header without a second field, or whose timestamp is no integer,
\* makes receive_message return with the outcome Malformed.
C9_MalformedReturned ==
    \A h \in Hooks :
        (Verified(h) /\ req[h].form # "missing" /\ ~SentWellFormed(h))
        => (hpc[h] = "returned" /\ verdict[h] = "Malformed")

\* C10: conversation-create is issued only right after a contact-create
\* that returned an id, and with that id; assign and close only after a
\* conversation-create that returned an id, and with that id; a failed
\* contact-create or conversation-create is the invocation's last request.
C10_IdsBeforeUse ==
    \A h \in Hooks : \A i \in 1..Len(issued[h]) :
        LET e == issued[h][i]
        IN  /\ e.op = "conversation" =>
                  /\ i > 1
                  /\ issued[h][i - 1].op = "contact"
                  /\ issued[h][i - 1].resp = "ok"
                  /\ e.arg = issued[h][i - 1].id
            /\ e.op \in {"assign", "close"} =>
                  \E j \in 1..(i - 1) :
                      /\ issued[h][j].op = "conversation"
                      /\ issued[h][j].resp = "ok"
                      /\ e.arg = issued[h][j].id
            /\ (e.op \in {"contact", "conversation"} /\ e.resp # "ok")
                  => i = Len(issued[h])

C10_Witness ==
    \E h, g \in Hooks :
        /\ OpsOf(h) = <<"contact", "conversation", "assign", "close">>
        /\ hpc[g] = "raised"
        /\ Len(issued[g]) = 1
        /\ issued[g][1].resp = "error"

\* C11: in an invocation with should_support false whose assign request
\* failed (an error response, or an error raised by the call), the close
\* request is still issued.
C11_CloseDespiteAssignFailure ==
    \A h \in Hooks :
        (/\ ~inp[h].should_support
         /\ Ended(h)
         /\ \E i \in 1..Len(issued[h]) :
               issued[h][i].op = "assign" /\ issued[h][i].resp # "ok")
        => \E j \in 1..Len(issued[h]) : issued[h][j].op = "close"

\* C12: once the AI session has ended while the handler is in the relay
\* loop, the handler leaves the loop and returns, whether or not the
\* telephony side closes.
C12_SessionEndStopsRelay ==
    \A c \in {"c1"} :
        (aiEnded[c] /\ pc[c] = "relay") ~> (pc[c] = "done")

\* C13: while one handler is blocked waiting for its session to end, every
\* other handler with a frame to read can read it and every delivered
\* webhook can be handled.
C13_OthersKeepRunning ==
    \A c \in Calls :
        (pc[c] = "joining" /\ ~aiEnded[c])
        => (/\ \A d \in Calls \ {c} :
                  (pc[d] = "relay" /\ inbox[d] # <<>>) => ENABLED RecvText(d)
            /\ \A h \in Hooks : hpc[h] = "body" => ENABLED ReceiveVerify(h))

\* the frames of call c that the handler has read so far, in sending order
Consumed(c) == SubSeq(sentLog[c], 1, Len(sentLog[c]) - Len(inbox[c]))

\* what json.loads gives for the frames of fs that are not empty and parse
RECURSIVE ParsedOf(_)
ParsedOf(fs) ==
    IF fs = <<>> THEN <<>>
    ELSE IF Head(fs) # EmptyText /\ JsonLoads(Head(fs)).ok
         THEN <<JsonLoads(Head(fs)).value>> \o ParsedOf(Tail(fs))
         ELSE ParsedOf(Tail(fs))

\* C14: the messages handed to the audio interface are the messages read,
\* in the order the telephony side sent them, each handed once; a message
\* is handed only from the relay loop, one at a time, and the handler then
\* awaits its handling before it reads the next.
C14_OrderPreserved ==
    /\ [](\A c \in Calls : handed[c] = ParsedOf(Consumed(c)))
    /\ [][\A c \in Calls :
            handed'[c] # handed[c]
            => (/\ pc[c] = "relay"
                /\ pc'[c] = "handling"
                /\ Len(handed'[c]) = Len(handed[c]) + 1)]_vars

C14_Witness ==
    \E c \in Calls :
        /\ Len(handed[c]) = 2
        /\ handed[c][1].seq # handed[c][2].seq
        /\ pc[c] = "relay"

\* C15: an error raised while constructing or starting the AI session, while
\* relaying, or in the teardown is caught inside handle_media_stream: the
\* handler is then in its teardown or has returned, and it has never left
\* through an exception; an error inside the teardown ends in a return.
C15_ErrorsCaught ==
    \A c \in Calls :
        /\ cause[c] \in {"construct_error", "start_error", "exception", "disconnect_exc"}
           => pc[c] \in {"finally", "wait", "joining", "done"}
        /\ endResult[c] \in {"raised", "unbound"} => pc[c] = "done"

C15_Witness ==
    \E c \in Calls :
        /\ cause[c] = "start_error"
        /\ endResult[c] = "raised"
        /\ pc[c] = "done"

\* the lifecycle state of the session that a position of the handler stands for
LifecycleRank(p) ==
    CASE p = "pending" -> 0
      [] p \in {"construct", "start"} -> 1
      [] p \in {"relay", "handling"} -> 2
      [] p \in {"finally", "wait", "joining"} -> 3
      [] OTHER -> 4

\* C19: the lifecycle never moves backwards through Idle, Connecting, Active,
\* Closing, Closed, and a message is handed to the audio interface only
\* when start_session has returned and end_session has not been called.
C19_ForwardOnly ==
    [][\A c \in Calls :
          /\ LifecycleRank(pc'[c]) >= LifecycleRank(pc[c])
          /\ handed'[c] # handed[c]
             => (started[c] /\ endCalls[c] = 0 /\ LifecycleRank(pc[c]) = 2)]_vars

C19_Witness ==
    \E c \in Calls :
        /\ Len(handed[c]) >= 1
        /\ endCalls[c] = 1
        /\ pc[c] = "done"

\* C20: wait_for_session_end is called at most once and only after
\* end_session has returned without error; when end_session raised, or no
\* session object was constructed, the wait is not called and the handler
\* has returned.
C20_WaitOnlyAfterEnd ==
    \A c \in Calls :
        /\ waitCalls[c] <= 1
        /\ waitCalls[c] = 1 => (endResult[c] = "ok" /\ endCalls[c] = 1)
        /\ endResult[c] \in {"raised", "unbound"}
           => (waitCalls[c] = 0 /\ pc[c] = "done")

C20_Witness ==
    \E c \in Calls :
        /\ bound[c]
        /\ endResult[c] = "raised"
        /\ waitCalls[c] = 0
        /\ pc[c] = "done"

\* C16: when a contact was already created for a phone number and the
\* ticketing API answers the next create for that number with its error
\* object, the invocation still obtains the id of the existing contact and
\* goes on to create its conversation.
C16_CreateOrFetch ==
    [][\A g \in Hooks :
          (/\ Len(issued[g]) = 0
           /\ Len(issued'[g]) = 1
           /\ issued'[g][1].resp = "error"
           /\ \E h \in Hooks \ {g} :
                 /\ inp[h].phone_number = inp[g].phone_number
                 /\ Len(issued[h]) >= 1
                 /\ issued[h][1].resp = "ok")
          => \E h \in Hooks \ {g} :
                 /\ inp[h].phone_number = inp[g].phone_number
                 /\ Len(issued[h]) >= 1
                 /\ ctx'[g].contact_id = issued[h][1].id
                 /\ hpc'[g] = "conversation"]_vars

\* C17: whatever the order of the invocations' steps, the contact id an
\* invocation holds is the one its own contact-create returned and is the
\* one every conversation-create of it carries; the conversation id it
\* holds is the one its own conversation-create returned and is the one
\* its assign and close carry.
C17_OwnIdentifiers ==
    \A h \in Hooks :
        /\ ctx[h].contact_id # NoCtx.contact_id
           => (Len(issued[h]) >= 1 /\ ctx[h].contact_id = issued[h][1].id)
        /\ ctx[h].conversation_id # NoCtx.conversation_id
           => (Len(issued[h]) >= 2 /\ ctx[h].conversation_id = issued[h][2].id)
        /\ \A i \in 1..Len(issued[h]) :
              /\ issued[h][i].op = "conversation"
                 => issued[h][i].arg = ctx[h].contact_id
              /\ issued[h][i].op \in {"assign", "close"}
                 => issued[h][i].arg = ctx[h].conversation_id

C17_Witness ==
    \E h, g \in Hooks :
        /\ OpsOf(h) = <<"contact", "conversation", "assign", "close">>
        /\ Len(issued[g]) >= 3
        /\ ctx[h].contact_id # ctx[g].contact_id
        /\ ctx[h].conversation_id # ctx[g].conversation_id
        /\ issued[g][3].arg = ctx[g].conversation_id

\* C18: two verification attempts on the same body and timestamp, both
\* rejected at the signature comparison with provided digests of the
\* length of the expected one, examine the same number of characters.
C18_ConstantTime ==
    \A h, g \in Hooks :
        (/\ verdict[h] = "SignatureMismatch"
         /\ verdict[g] = "SignatureMismatch"
         /\ req[h].body = req[g].body
         /\ req[h].tsText = req[g].tsText
         /\ Len(req[h].header) = Len(req[g].header))
        => compared[h] = compared[g]

====
